---- MODULE Spec2Model ----
(***************************************************************************)
(* A model of src/minesweeper.py: the Minesweeper board (ground truth),    *)
(* the Sentence constraint and the MinesweeperAI knowledge base with its   *)
(* inference step add_knowledge and its two move queries.                  *)
(*                                                                         *)
(* A cell is a pair <<row, column>>.  A Sentence is a record               *)
(* [cells, count].  self.knowledge is a sequence of Sentences, in list     *)
(* order.  A Python exception that leaves add_knowledge is the flag err:   *)
(* the agent keeps what the call had written and the program stops.        *)
(***************************************************************************)
EXTENDS Integers, Sequences, FiniteSets, TLC

\* ------------------------------------------------------------------ bounds
\* Boards have at most MaxCells cells (height * width) and at most MaxMines
\* mines, and a run makes at most MaxCalls calls of add_knowledge.
MaxCells == 9
MaxMines == 1
MaxCalls == 4

\* The runs that also call mark_mine and mark_safe from outside (SpecOps) use
\* boards of at most MaxOpsCells cells and make at most MaxOps calls that write
\* the agent (add_knowledge, mark_mine, mark_safe).
MaxOpsCells == 5
MaxOps == 2

\* The runs that look at one inference pass (SpecInfer, SpecSquare) make at most
\* MaxInferCalls calls of add_knowledge.
MaxInferCalls == 3

\* The games (SpecGame) are played on boards of at most MaxOpsCells cells and
\* stop after MaxRounds rounds if they have not ended.
MaxRounds == 7

\* The runs on one Sentence alone (SpecSentence) draw its cells from a row of
\* MaxSentenceLen cells and its count from -1 .. MaxSentenceLen + 1.
MaxSentenceLen == 3

VARIABLES
    height,      \* Minesweeper.height = MinesweeperAI.height
    width,       \* Minesweeper.width = MinesweeperAI.width
    board,       \* Minesweeper.board: cell -> BOOLEAN (TRUE = mine)
    moves_made,  \* MinesweeperAI.moves_made
    mines,       \* MinesweeperAI.mines
    safes,       \* MinesweeperAI.safes
    knowledge,   \* MinesweeperAI.knowledge, a sequence of Sentences
    err,         \* TRUE once a call has raised (ValueError of list.remove)
    op,          \* the last operation called
    arg,         \* its cell argument (None when it takes none)
    cnt,         \* the count passed to the last add_knowledge
    result,      \* the value the last operation returned
    obs,         \* the Sentence the last add_knowledge built on line 219
    snap,        \* len(self.knowledge) when the last add_knowledge's pass ended
    examined,    \* the new_sentence values the last pass built on line 240
    prevExamined,\* examined of the add_knowledge call before the last one
    calls        \* number of calls made so far that write the agent

vars == <<height, width, board, moves_made, mines, safes, knowledge, err, op,
          arg, cnt, result, obs, snap, examined, prevExamined, calls>>

None == "None"

\* ------------------------------------------------------------ Minesweeper
\* range(a, b) of Python
range(a, b) == a .. (b - 1)

\* The cells of a board of h rows and w columns (board[i][j], i < h, j < w).
BoardCells(h, w) == range(0, h) \X range(0, w)

Cells == BoardCells(height, width)

is_mine(cell) == board[cell]

\* The true mines of the board (Minesweeper.mines).
TrueMines == {c \in Cells : board[c]}

\* Minesweeper.nearby_mines: mines within one row and column of cell, the
\* cell itself excluded, rows clipped to height and columns to width.
nearby_mines(cell) ==
    Cardinality({ij \in range(cell[1] - 1, cell[1] + 2) \X range(cell[2] - 1, cell[2] + 2) :
                    /\ ij # cell
                    /\ 0 <= ij[1] /\ ij[1] < height
                    /\ 0 <= ij[2] /\ ij[2] < width
                    /\ board[ij]})

\* ---------------------------------------------------------------- Sentence
Sentence(cells, count) == [cells |-> cells, count |-> count]

\* known_mines as it would be with `>=` for `==` on line 109.
known_mines_atleast(s) ==
    IF s.count >= Cardinality(s.cells) /\ s.count # 0 THEN s.cells ELSE {}

known_mines(s) ==
    IF s.count = Cardinality(s.cells) /\ s.count # 0 THEN s.cells ELSE {}

known_safes(s) ==
    IF s.count = 0 THEN s.cells ELSE {}

\* Sentence.mark_mine as it would be without the test of line 125.
Sentence_mark_mine_always(s, cell) ==
    [cells |-> s.cells \ {cell}, count |-> s.count - 1]

Sentence_mark_mine(s, cell) ==
    IF cell \in s.cells
    THEN [cells |-> s.cells \ {cell}, count |-> s.count - 1]
    ELSE s

\* Sentence.mark_safe as it would be if it decremented count as mark_mine does.
Sentence_mark_safe_decrement(s, cell) ==
    IF cell \in s.cells
    THEN [cells |-> s.cells \ {cell}, count |-> s.count - 1]
    ELSE s

Sentence_mark_safe(s, cell) ==
    IF cell \in s.cells
    THEN [cells |-> s.cells \ {cell}, count |-> s.count]
    ELSE s

\* `x in list` for a list of Sentences: equality by cells and count (__eq__).
InList(s, list) == \E i \in DOMAIN list : list[i] = s

\* ----------------------------------------------------------- MinesweeperAI
\* The agent's fields as one record st: moves_made, mines, safes, knowledge
\* (self.knowledge); with them, for the call in progress: new (the entries
\* new_knowledge holds beyond those of self.knowledge), examined (every
\* new_sentence built on line 240, in order), obs (the Sentence of line 219),
\* snap (len(self.knowledge) when the pass ended) and raised (the call raised).
\* mark_mine as it would be if every sentence were reduced without the test
\* of line 125.
mark_mine_blind(st, cell) ==
    [st EXCEPT !.mines = @ \cup {cell},
               !.knowledge = [i \in DOMAIN @ |-> Sentence_mark_mine_always(@[i], cell)]]

mark_mine(st, cell) ==
    [st EXCEPT !.mines = @ \cup {cell},
               !.knowledge = [i \in DOMAIN @ |-> Sentence_mark_mine(@[i], cell)]]

\* mark_safe as it would be without the loop of lines 178-179.
mark_safe_unpropagated(st, cell) ==
    [st EXCEPT !.safes = @ \cup {cell}]

\* mark_safe as it would be if it reclassified the cell (took it out of mines).
mark_safe_reclassify(st, cell) ==
    [st EXCEPT !.safes = @ \cup {cell},
               !.mines = @ \ {cell},
               !.knowledge = [i \in DOMAIN @ |-> Sentence_mark_safe(@[i], cell)]]

mark_safe(st, cell) ==
    [st EXCEPT !.safes = @ \cup {cell},
               !.knowledge = [i \in DOMAIN @ |-> Sentence_mark_safe(@[i], cell)]]

\* for mine in init_mines: self.mark_mine(mine)
RECURSIVE MarkMines(_, _)
MarkMines(st, S) ==
    IF S = {} THEN st
    ELSE LET c == CHOOSE c \in S : TRUE
         IN  MarkMines(mark_mine(st, c), S \ {c})

\* for safe in init_safes: self.mark_safe(safe)
RECURSIVE MarkSafes(_, _)
MarkSafes(st, S) ==
    IF S = {} THEN st
    ELSE LET c == CHOOSE c \in S : TRUE
         IN  MarkSafes(mark_safe(st, c), S \ {c})

\* Line 202-203: x ranges over the rows around cell and is clipped to
\* self.width, y over the columns around cell and is clipped to self.height.
neighborhood(cell) ==
    {xy \in range(cell[1] - 1, cell[1] + 2) \X range(cell[2] - 1, cell[2] + 2) :
        /\ xy[1] >= 0 /\ xy[1] < width
        /\ xy[2] >= 0 /\ xy[2] < height}

\* Lines 236-243: the inner loop over sentence_2 = self.knowledge[j], for
\* sentence_1 = self.knowledge[i].
\* The inner loop as it would be if new_knowledge were self.knowledge itself
\* (line 222 without .copy()): a derived sentence joins the list being iterated.
RECURSIVE SubsetLoop_alias(_, _, _)
SubsetLoop_alias(st, i, j) ==
    IF j > Len(st.knowledge) THEN st
    ELSE LET s1 == st.knowledge[i]
             s2 == st.knowledge[j]
             new_sentence == Sentence(s2.cells \ s1.cells, s2.count - s1.count)
         IN  IF s1 = s2 THEN SubsetLoop_alias(st, i, j + 1)
             ELSE IF s1.cells \subseteq s2.cells
             THEN SubsetLoop_alias(
                     [st EXCEPT !.examined = Append(@, new_sentence),
                                !.knowledge = IF InList(new_sentence, st.knowledge)
                                              THEN @ ELSE Append(@, new_sentence)],
                     i, j + 1)
             ELSE SubsetLoop_alias(st, i, j + 1)

RECURSIVE SubsetLoop(_, _, _)
SubsetLoop(st, i, j) ==
    IF j > Len(st.knowledge) THEN st
    ELSE LET s1 == st.knowledge[i]
             s2 == st.knowledge[j]
             new_sentence == Sentence(s2.cells \ s1.cells, s2.count - s1.count)
         IN  IF s1 = s2 THEN SubsetLoop(st, i, j + 1)
             ELSE IF s1.cells \subseteq s2.cells
             THEN SubsetLoop(
                     [st EXCEPT !.examined = Append(@, new_sentence),
                                !.new = IF InList(new_sentence, st.knowledge)
                                        THEN @ ELSE Append(@, new_sentence)],
                     i, j + 1)
             ELSE SubsetLoop(st, i, j + 1)

\* Lines 224-243: the outer loop over sentence_1 = self.knowledge[i].
RECURSIVE InferLoop(_, _)
InferLoop(st, i) ==
    IF i > Len(st.knowledge) THEN st
    ELSE LET sentence_1 == st.knowledge[i]
             init_mines == known_mines(sentence_1)
             init_safes == known_safes(sentence_1)
             marked == MarkSafes(MarkMines(st, init_mines), init_safes)
         IN  InferLoop(SubsetLoop(marked, i, 1), i + 1)

\* add_knowledge(cell, count) from the agent state st.  The result carries
\* raised = TRUE when list.remove raised on line 210/213 (a cell removed by the
\* first `if` and again by the second), and then holds what was written so far.
add_knowledge(st, cell, count) ==
    LET st0 == [st EXCEPT !.moves_made = @ \cup {cell}]
        st1 == mark_safe(st0, cell)
        nb == neighborhood(cell)
        twice == {xy \in nb : (xy = cell \/ xy \in st1.safes) /\ xy \in st1.mines}
        parsed == {xy \in nb : ~(xy = cell \/ xy \in st1.safes) /\ xy \notin st1.mines}
        count2 == count - Cardinality(nb \cap st1.mines)
        sentence == Sentence(parsed, count2)
        st2 == [st1 EXCEPT !.knowledge = Append(@, sentence),
                           !.obs = sentence,
                           !.snap = Len(st1.knowledge) + 1]
    IN  IF twice # {}
        THEN [st1 EXCEPT !.raised = TRUE, !.snap = Len(st1.knowledge)]
        ELSE CHOOSE r \in {[st3 EXCEPT !.knowledge = @ \o st3.new,
                                        !.snap = Len(st3.knowledge)] :
                             st3 \in {InferLoop(st2, 1)}} : TRUE

\* make_safe_move: the cells the loop on lines 259-261 can return, in whatever
\* order the set is iterated; None when the loop finds none or safes is empty.
\* make_safe_move as it would be without the test on moves_made (line 260).
make_safe_move_any ==
    IF Cardinality(safes) = 0 THEN {None} ELSE safes

make_safe_move ==
    IF Cardinality(safes) = 0 THEN {None}
    ELSE IF safes \ moves_made = {} THEN {None}
    ELSE safes \ moves_made

\* make_random_move: random.choice over good_moves, None when it is empty.
\* good_moves as it would be with the ranges of line 271 exchanged.
good_moves_swapped ==
    {xy \in range(0, width) \X range(0, height) : xy \notin moves_made /\ xy \notin mines}

good_moves ==
    {xy \in range(0, height) \X range(0, width) : xy \notin moves_made /\ xy \notin mines}

make_random_move ==
    IF Cardinality(good_moves) = 0 THEN {None} ELSE good_moves

\* ------------------------------------------------------------------ state
NoSentence == Sentence({}, 0)

\* The agent record, from the variables, as a call finds it.
Agent ==
    [moves_made |-> moves_made, mines |-> mines, safes |-> safes,
     knowledge |-> knowledge, new |-> <<>>, examined |-> <<>>, raised |-> FALSE,
     obs |-> NoSentence, snap |-> 0]

\* Board shapes: height, width >= 1 with height * width <= n.
Shapes(n) == {hw \in (1 .. n) \X (1 .. n) : hw[1] * hw[2] <= n}

\* Minesweeper.__init__ places `mines` distinct mines at random cells.
Boards(h, w) ==
    {[c \in BoardCells(h, w) |-> c \in M] :
        M \in {M \in SUBSET BoardCells(h, w) : Cardinality(M) <= MaxMines}}

\* Minesweeper.__init__ and MinesweeperAI.__init__ on a board of at most n cells.
InitOn(n) ==
    /\ \E hw \in Shapes(n) :
          /\ height = hw[1]
          /\ width = hw[2]
          /\ board \in Boards(hw[1], hw[2])
    /\ moves_made = {}
    /\ mines = {}
    /\ safes = {}
    /\ knowledge = <<>>
    /\ err = FALSE
    /\ op = "init"
    /\ arg = None
    /\ cnt = 0
    /\ result = None
    /\ obs = NoSentence
    /\ snap = 0
    /\ examined = <<>>
    /\ prevExamined = <<>>
    /\ calls = 0

Init == InitOn(MaxCells)

InitOps == InitOn(MaxOpsCells)

\* The driver reveals a cell that is not a mine and reports the board's count
\* of the mines around it: add_knowledge(cell, nearby_mines(cell)).
AddKnowledge ==
    /\ ~err
    /\ calls < MaxCalls
    /\ \E cell \in Cells :
          /\ ~is_mine(cell)
          /\ \E st \in {add_knowledge(Agent, cell, nearby_mines(cell))} :
                 /\ moves_made' = st.moves_made
                 /\ mines' = st.mines
                 /\ safes' = st.safes
                 /\ knowledge' = st.knowledge
                 /\ err' = st.raised
                 /\ obs' = st.obs
                 /\ snap' = st.snap
                 /\ examined' = st.examined
          /\ op' = "add_knowledge"
          /\ arg' = cell
          /\ cnt' = nearby_mines(cell)
    /\ result' = None
    /\ prevExamined' = examined
    /\ calls' = calls + 1
    /\ UNCHANGED <<height, width, board>>

\* mark_mine(cell) called on the agent from outside add_knowledge.
MarkMine ==
    /\ ~err
    /\ calls < MaxOps
    /\ \E cell \in Cells :
          /\ \E st \in {mark_mine(Agent, cell)} :
                 /\ mines' = st.mines
                 /\ knowledge' = st.knowledge
          /\ op' = "mark_mine"
          /\ arg' = cell
    /\ result' = None
    /\ calls' = calls + 1
    /\ UNCHANGED <<height, width, board, moves_made, safes, err, cnt, obs, snap,
                   examined, prevExamined>>

\* mark_safe(cell) called on the agent from outside add_knowledge.
MarkSafe ==
    /\ ~err
    /\ calls < MaxOps
    /\ \E cell \in Cells :
          /\ \E st \in {mark_safe(Agent, cell)} :
                 /\ safes' = st.safes
                 /\ knowledge' = st.knowledge
          /\ op' = "mark_safe"
          /\ arg' = cell
    /\ result' = None
    /\ calls' = calls + 1
    /\ UNCHANGED <<height, width, board, moves_made, mines, err, cnt, obs, snap,
                   examined, prevExamined>>

MakeSafeMove ==
    /\ ~err
    /\ \E r \in make_safe_move :
          /\ result' = r
          /\ op' = "make_safe_move"
          /\ arg' = None
    /\ UNCHANGED <<height, width, board, moves_made, mines, safes, knowledge, err,
                   cnt, obs, snap, examined, prevExamined, calls>>

MakeRandomMove ==
    /\ ~err
    /\ \E r \in make_random_move :
          /\ result' = r
          /\ op' = "make_random_move"
          /\ arg' = None
    /\ UNCHANGED <<height, width, board, moves_made, mines, safes, knowledge, err,
                   cnt, obs, snap, examined, prevExamined, calls>>

\* The agent fed with the board's true observations, call after call.
Next == AddKnowledge

Spec == Init /\ [][Next]_vars

\* Every operation of the agent, in any order.
OpsAddKnowledge == calls < MaxOps /\ AddKnowledge

NextOps ==
    \/ OpsAddKnowledge
    \/ MarkMine
    \/ MarkSafe
    \/ MakeSafeMove
    \/ MakeRandomMove

SpecOps == InitOps /\ [][NextOps]_vars

\* The agent fed with true observations on the boards where the inference pass
\* is looked at: every board of at most MaxOpsCells cells, and the square
\* boards of at most MaxCells cells.
InitInfer == Init /\ (height = width \/ height * width <= MaxOpsCells)

InitSquare == Init /\ height = width

InferAddKnowledge == calls < MaxInferCalls /\ AddKnowledge

NextInfer == InferAddKnowledge

SpecInfer == InitInfer /\ [][NextInfer]_vars

SpecSquare == InitSquare /\ [][NextInfer]_vars

\* mark_mine(cell) called a second time, right after mark_mine(cell) with the
\* same cell.
MarkMineAgain ==
    /\ ~err
    /\ op = "mark_mine"
    /\ \E st \in {mark_mine(Agent, arg)} :
           /\ mines' = st.mines
           /\ knowledge' = st.knowledge
    /\ op' = "mark_mine_again"
    /\ result' = None
    /\ UNCHANGED <<height, width, board, moves_made, safes, err, arg, cnt, obs, snap,
                   examined, prevExamined, calls>>

\* The operations that write the agent, in any order, each mark_mine followed
\* or not by the same call again.
NextMark ==
    \/ OpsAddKnowledge
    \/ MarkMine
    \/ MarkSafe
    \/ MarkMineAgain

SpecMark == InitOps /\ [][NextMark]_vars

\* A game: each round the driver plays the cell make_safe_move returns, or the
\* cell make_random_move returns when that is None.  No cell (both None) ends
\* the game; a cell off the board makes Minesweeper.is_mine raise IndexError
\* (board[i][j], lines 50-52); a mine ends the game; any other cell is reported
\* with add_knowledge(cell, nearby_mines(cell)).
DriverMoves ==
    IF safes \ moves_made # {} THEN make_safe_move ELSE make_random_move

GameOver == err \/ op \in {"mine_hit", "no_move"}

PlayRound ==
    /\ ~GameOver
    /\ calls < MaxRounds
    /\ \E move \in DriverMoves :
          /\ result' = move
          /\ IF move = None
             THEN /\ op' = "no_move"
                  /\ arg' = None
                  /\ UNCHANGED <<moves_made, mines, safes, knowledge, err, cnt, obs,
                                 snap, examined, prevExamined, calls>>
             ELSE IF move \notin Cells
             THEN /\ op' = "is_mine"
                  /\ arg' = move
                  /\ err' = TRUE
                  /\ calls' = calls + 1
                  /\ UNCHANGED <<moves_made, mines, safes, knowledge, cnt, obs, snap,
                                 examined, prevExamined>>
             ELSE IF is_mine(move)
             THEN /\ op' = "mine_hit"
                  /\ arg' = move
                  /\ calls' = calls + 1
                  /\ UNCHANGED <<moves_made, mines, safes, knowledge, err, cnt, obs,
                                 snap, examined, prevExamined>>
             ELSE /\ \E st \in {add_knowledge(Agent, move, nearby_mines(move))} :
                         /\ moves_made' = st.moves_made
                         /\ mines' = st.mines
                         /\ safes' = st.safes
                         /\ knowledge' = st.knowledge
                         /\ err' = st.raised
                         /\ obs' = st.obs
                         /\ snap' = st.snap
                         /\ examined' = st.examined
                  /\ op' = "add_knowledge"
                  /\ arg' = move
                  /\ cnt' = nearby_mines(move)
                  /\ prevExamined' = examined
                  /\ calls' = calls + 1
    /\ UNCHANGED <<height, width, board>>

NextGame == PlayRound

SpecGame == InitOps /\ [][NextGame]_vars

\* One Sentence on its own: Sentence(cells, count) built from any cells and
\* any count, held in obs, and its four methods called on it in any order.
InitSentence ==
    /\ height = 1
    /\ width = MaxSentenceLen
    /\ board = [c \in BoardCells(1, MaxSentenceLen) |-> FALSE]
    /\ obs \in {Sentence(cells, count) :
                   cells \in SUBSET BoardCells(1, MaxSentenceLen),
                   count \in (-1) .. (MaxSentenceLen + 1)}
    /\ moves_made = {}
    /\ mines = {}
    /\ safes = {}
    /\ knowledge = <<>>
    /\ err = FALSE
    /\ op = "init"
    /\ arg = None
    /\ cnt = 0
    /\ result = None
    /\ snap = 0
    /\ examined = <<>>
    /\ prevExamined = <<>>
    /\ calls = 0

SentenceKnownMines ==
    /\ result' = known_mines(obs)
    /\ op' = "Sentence.known_mines"
    /\ arg' = None
    /\ UNCHANGED <<height, width, board, moves_made, mines, safes, knowledge, err,
                   cnt, obs, snap, examined, prevExamined, calls>>

SentenceKnownSafes ==
    /\ result' = known_safes(obs)
    /\ op' = "Sentence.known_safes"
    /\ arg' = None
    /\ UNCHANGED <<height, width, board, moves_made, mines, safes, knowledge, err,
                   cnt, obs, snap, examined, prevExamined, calls>>

SentenceMarkMine ==
    /\ \E cell \in Cells :
          /\ obs' = Sentence_mark_mine(obs, cell)
          /\ arg' = cell
    /\ op' = "Sentence.mark_mine"
    /\ result' = None
    /\ UNCHANGED <<height, width, board, moves_made, mines, safes, knowledge, err,
                   cnt, snap, examined, prevExamined, calls>>

SentenceMarkSafe ==
    /\ \E cell \in Cells :
          /\ obs' = Sentence_mark_safe(obs, cell)
          /\ arg' = cell
    /\ op' = "Sentence.mark_safe"
    /\ result' = None
    /\ UNCHANGED <<height, width, board, moves_made, mines, safes, knowledge, err,
                   cnt, snap, examined, prevExamined, calls>>

NextSentence ==
    \/ SentenceKnownMines
    \/ SentenceKnownSafes
    \/ SentenceMarkMine
    \/ SentenceMarkSafe

SpecSentence == InitSentence /\ [][NextSentence]_vars

\* ------------------------------------------------------------------ claims
\* The neighbours of cell on the board: the board cells within Chebyshev
\* distance 1 of it, the cell itself excluded.
BoardNeighbours(cell) ==
    {c \in Cells : /\ c # cell
                   /\ c[1] - cell[1] \in {-1, 0, 1}
                   /\ c[2] - cell[2] \in {-1, 0, 1}}

\* A sentence all of whose cells are mines, and that has one: count = |cells| > 0.
AllMines(s) == s.count = Cardinality(s.cells) /\ s.count > 0

\* The sentences the last add_knowledge appended by subset inference.
Derived == (snap + 1) .. Len(knowledge)

\* C1: soundness. After add_knowledge calls on non-mine cells with the board's
\* true counts, every cell of mines is a true mine and no cell of safes is one.
C1_Sound ==
    /\ mines \subseteq TrueMines
    /\ safes \cap TrueMines = {}

\* C2: disjointness. safes and mines never have a cell in common.
C2_Disjoint == safes \cap mines = {}

\* C3: count invariant. Every sentence of knowledge has 0 <= count <= |cells|.
C3_CountInvariant ==
    \A i \in DOMAIN knowledge :
        /\ 0 <= knowledge[i].count
        /\ knowledge[i].count <= Cardinality(knowledge[i].cells)

\* C4: observation sentence. A call add_knowledge(cell, count) that returns has
\* appended the sentence whose cells are the board neighbours of cell that were
\* neither in safes nor in mines, and whose count is count minus the number of
\* board neighbours that were in mines.
C4_Observation ==
    [][(op' = "add_knowledge" /\ ~err') =>
          obs' = Sentence((BoardNeighbours(arg') \ safes) \ mines,
                          cnt' - Cardinality(BoardNeighbours(arg') \cap mines))]_vars

\* C5: zero-count observation. When add_knowledge(cell, 0) returns, cell and
\* every board neighbour of cell are in safes.
C5_ZeroCount ==
    (op = "add_knowledge" /\ ~err /\ cnt = 0) =>
        (BoardNeighbours(arg) \cup {arg}) \subseteq safes

\* C6 (first half): when a call returns, knowledge holds a sentence equal to
\* every all-mines difference s2 - s1 the call has built from a pair s1, s2 of
\* unequal sentences of knowledge with s1.cells a subset of s2.cells.
C6_DerivedKept ==
    (op = "add_knowledge" /\ ~err) =>
        \A k \in DOMAIN examined :
            AllMines(examined[k]) => InList(examined[k], knowledge)

\* C6 (second half): subset inference yields the mine. When a call returns,
\* the cells of every all-mines difference s2 - s1 that the call before it had
\* built are in mines.
C6_MinesByNextReturn ==
    (op = "add_knowledge" /\ ~err) =>
        \A k \in DOMAIN prevExamined :
            AllMines(prevExamined[k]) => prevExamined[k].cells \subseteq mines

\* C7: no duplicate derivation. The sentences a call appends by subset
\* inference are pairwise unequal, and none equals a sentence that was in
\* knowledge before them.
C7_NoDuplicateDerived ==
    (op = "add_knowledge" /\ ~err) =>
        \A j \in Derived : \A i \in 1 .. (j - 1) : knowledge[i] # knowledge[j]

\* C8: monotonicity. No operation takes a cell out of safes, mines or moves_made.
C8_Monotone ==
    [][/\ safes \subseteq safes'
       /\ mines \subseteq mines'
       /\ moves_made \subseteq moves_made']_vars

\* A cell marked as a mine that was in safes already: both sets keep it.
C8_Witness ==
    /\ op = "mark_mine"
    /\ arg \in safes
    /\ arg \in mines
    /\ moves_made # {}

\* C9: make_safe_move returns None exactly when safes \ moves_made is empty,
\* otherwise a cell of safes that is not in moves_made, and it leaves safes,
\* mines, moves_made and knowledge as they were.
C9_MakeSafeMove ==
    [][op' = "make_safe_move" =>
          /\ (result' = None) <=> (safes \ moves_made = {})
          /\ result' # None => (result' \in safes /\ result' \notin moves_made)
          /\ UNCHANGED <<safes, mines, moves_made, knowledge>>]_vars

\* make_safe_move has returned a safe cell not yet played, others being played.
C9_Witness ==
    /\ op = "make_safe_move"
    /\ result \in safes \ moves_made
    /\ safes \cap moves_made # {}

\* C10: make_random_move returns None exactly when every board cell is in
\* moves_made or in mines, otherwise a board cell that is in neither; and every
\* such cell is a value the call can return.
C10_MakeRandomMove ==
    /\ op = "make_random_move" =>
          /\ (result = None) <=> (Cells \subseteq (moves_made \cup mines))
          /\ result # None => result \in Cells \ (moves_made \cup mines)
    /\ ~err =>
          \A c \in Cells \ (moves_made \cup mines) :
              ENABLED (MakeRandomMove /\ result' = c)

\* make_random_move has returned None on a board whose cells are all played
\* or known mines, one at least being a known mine.
C10_Witness ==
    /\ op = "make_random_move"
    /\ result = None
    /\ mines # {}
    /\ moves_made # {}

\* C11: certain-fact extraction. For every sentence, known_mines() is the whole
\* cell set when count = |cells| and count # 0 and the empty set otherwise, and
\* known_safes() is the whole cell set when count = 0 and the empty set
\* otherwise.
C11_KnownFacts ==
    /\ op = "Sentence.known_mines" =>
          /\ (obs.count = Cardinality(obs.cells) /\ obs.count # 0) => result = obs.cells
          /\ ~(obs.count = Cardinality(obs.cells) /\ obs.count # 0) => result = {}
    /\ op = "Sentence.known_safes" =>
          /\ obs.count = 0 => result = obs.cells
          /\ obs.count # 0 => result = {}

\* known_mines() has returned nothing for a sentence of two cells whose count
\* is larger than the number of its cells.
C11_Witness ==
    /\ op = "Sentence.known_mines"
    /\ Cardinality(obs.cells) = 2
    /\ obs.count > 2
    /\ result = {}

\* C12: Sentence cell removal. Sentence.mark_mine(cell) with cell in cells
\* removes exactly that cell and decrements count by exactly 1;
\* Sentence.mark_safe(cell) with cell in cells removes exactly that cell and
\* leaves count as it was; with cell not in cells both leave cells and count
\* as they were; neither raises.
C12_CellRemoval ==
    [][/\ op' = "Sentence.mark_mine" =>
             /\ arg' \in obs.cells =>
                    (obs'.cells = obs.cells \ {arg'} /\ obs'.count = obs.count - 1)
             /\ arg' \notin obs.cells =>
                    (obs'.cells = obs.cells /\ obs'.count = obs.count)
             /\ ~err'
       /\ op' = "Sentence.mark_safe" =>
             /\ arg' \in obs.cells =>
                    (obs'.cells = obs.cells \ {arg'} /\ obs'.count = obs.count)
             /\ arg' \notin obs.cells =>
                    (obs'.cells = obs.cells /\ obs'.count = obs.count)
             /\ ~err']_vars

\* Sentence.mark_mine has been called with a cell the sentence does not hold
\* (before or after the call), on a sentence that holds other cells.
C12_Witness ==
    /\ op = "Sentence.mark_mine"
    /\ arg \notin obs.cells
    /\ obs.cells # {}

\* C13: idempotence of the agent's mark_mine. For every agent state and every
\* cell c, a second mark_mine(c) right after the first leaves mines, safes,
\* moves_made and the cells and count of every sentence of knowledge as the
\* first call left them.
C13_MarkMineIdempotent ==
    [][op' = "mark_mine_again" =>
          /\ mines' = mines
          /\ safes' = safes
          /\ moves_made' = moves_made
          /\ knowledge' = knowledge]_vars

\* mark_mine(c) has been called twice on an agent whose first sentence, the
\* observation of the call before, held c and lost it to the first call.
C13_Witness ==
    /\ op = "mark_mine_again"
    /\ Len(knowledge) >= 1
    /\ arg \in obs.cells
    /\ knowledge[1] = Sentence(obs.cells \ {arg}, obs.count - 1)

\* C14: cells stay inside the board. After any sequence of add_knowledge calls
\* on board cells, every cell of safes, of mines and of every sentence of
\* knowledge has 0 <= row < height and 0 <= column < width, and so has every
\* cell make_safe_move can return.
C14_InBoard ==
    /\ safes \subseteq Cells
    /\ mines \subseteq Cells
    /\ \A i \in DOMAIN knowledge : knowledge[i].cells \subseteq Cells
    /\ ~err => \A r \in make_safe_move : r # None => r \in Cells

\* C15 (as claimed): facts are propagated into all knowledge. When
\* add_knowledge returns, no sentence of knowledge holds a cell that is in
\* safes or in mines, the sentences derived in that call included.
C15_Propagated ==
    (op = "add_knowledge" /\ ~err) =>
        \A i \in DOMAIN knowledge : knowledge[i].cells \cap (safes \cup mines) = {}

\* C15 (amended): when add_knowledge returns, no sentence that was in knowledge
\* during the pass (the sentences held before the call and the observation
\* sentence) holds a cell that entered safes or mines during the call.
C15_PropagatedInPass ==
    [][(op' = "add_knowledge" /\ ~err') =>
          \A i \in 1 .. snap' :
              knowledge'[i].cells \cap ((safes' \ safes) \cup (mines' \ mines)) = {}]_vars

\* A call has returned with a known mine and with a sentence it derived that
\* holds a cell of safes or mines, the sentences of the pass holding none.
C15_Witness ==
    /\ op = "add_knowledge"
    /\ ~err
    /\ mines # {}
    /\ \E j \in Derived : knowledge[j].cells \cap (safes \cup mines) # {}
    /\ \A i \in 1 .. snap : knowledge[i].cells \cap (safes \cup mines) = {}

\* C16: sentence truth on square boards. On a board with height = width, after
\* any sequence of add_knowledge calls with true observations of non-mine
\* cells, exactly count of the cells of every sentence of knowledge are true
\* mines.
C16_SentencesTrue ==
    height = width =>
        \A i \in DOMAIN knowledge :
            Cardinality(knowledge[i].cells \cap TrueMines) = knowledge[i].count

\* On a square board a call has returned with a known mine, with an
\* observation sentence of count >= 1 that mark_mine or mark_safe has reduced
\* since it was built, and with a derived sentence that still holds a cell of
\* safes or mines.
C16_Witness ==
    /\ height = width
    /\ op = "add_knowledge"
    /\ ~err
    /\ mines # {}
    /\ obs.count >= 1
    /\ knowledge[snap] # obs
    /\ \E j \in Derived : knowledge[j].cells \cap (safes \cup mines) # {}

\* C17: single pass over a snapshot. Within one add_knowledge call the list
\* being iterated neither gains nor loses an entry: when the pass ends it has
\* the entries knowledge had before the call and the observation sentence,
\* and the sentences derived in the call come after them.  A derived sentence
\* is not used as s1 or s2 in the call that derived it: every difference the
\* pass built is the difference of two of those entries (up to the cells the
\* call has marked since).  Every sentence knowledge held before the call,
\* those derived in the call before included, is in the pass.
C17_SinglePass ==
    [][(op' = "add_knowledge" /\ ~err') =>
          /\ snap' = Len(knowledge) + 1
          /\ Len(knowledge') >= snap'
          /\ \A k \in DOMAIN examined' :
                 \E i, j \in 1 .. (Len(knowledge) + 1) :
                     /\ i # j
                     /\ (knowledge'[j].cells \ knowledge'[i].cells) \ (safes' \cup mines')
                            = examined'[k].cells \ (safes' \cup mines')]_vars

\* A call has returned with a sentence it derived whose known safes or known
\* mines have not been marked: the pass has not visited it.
C17_Witness ==
    /\ op = "add_knowledge"
    /\ ~err
    /\ snap >= 2
    /\ \E j \in Derived :
           \/ ~(known_safes(knowledge[j]) \subseteq safes)
           \/ ~(known_mines(knowledge[j]) \subseteq mines)

\* C18: the game ends. Neither move query returns a cell of moves_made; the
\* driver never plays a cell twice (every round that reported a cell added
\* one to moves_made, and the cell of a mine hit was not in it); and every
\* game ends by a mine hit or by both queries returning None, after at most
\* height * width rounds and without a call raising.
C18_GameEnds ==
    /\ ~err => \A r \in DriverMoves : r # None => r \notin moves_made
    /\ op = "add_knowledge" => Cardinality(moves_made) = calls
    /\ op = "mine_hit" => (arg \notin moves_made /\ Cardinality(moves_made) = calls - 1)
    /\ calls <= height * width
    /\ ~err

====
